---------------------------- MODULE Spec2Model ----------------------------
(***************************************************************************)
(* Model of fix_orders.py: a script that loads a text file as lines,       *)
(* replaces the first "GET /api/orders" route by a fixed template, drops   *)
(* every later one, and writes the lines back to the same path.            *)
(*                                                                         *)
(* A file is a sequence of tokens.  A token is a chunk of text that is     *)
(* atomic for the script: one of the four substrings it searches for, a    *)
(* newline character, or any other text.  A line is a sequence of tokens.  *)
(* Indices i are 0-based as in the script; TLA+ sequences are 1-based.     *)
(***************************************************************************)
EXTENDS Integers, Sequences, FiniteSets, TLC

VARIABLES
    disk,               \* content of the file at `path`, as seen from outside
    original,           \* content of the file at `path` when the script started
    linesep,            \* os.linesep of the platform the script runs on
    lines,              \* lines (list of str)
    new_lines,          \* new_lines (list of str)
    found_first_route,  \* found_first_route (bool)
    i,                  \* i (cursor into lines, 0-based)
    pc                  \* position of the script

vars == <<disk, original, linesep, lines, new_lines, found_first_route, i, pc>>

-----------------------------------------------------------------------------
(* Bounds of the model *)

\* longest file (in lines) of the whole-script specification whose lines all
\* end the same way
MaxFileLines == 5

\* longest file (in lines) of the whole-script specification whose lines end
\* in different ways
MaxMixedLines == 2

\* longest line list of the scan specification
MaxLen == 6

-----------------------------------------------------------------------------
(* Text *)

LF == "\n"
CR == "\r"

\* the substrings the script searches for
MARKER == "Get all orders"
SIGNATURE == "router.get('/',"
TERM_FIRST == ".toArray();"
TERM_LATER == "});"

\* `pat in line`: the patterns are atomic tokens of a line
Contains(line, pat) == \E k \in DOMAIN line : line[k] = pat

\* lines[k] with Python's indexing: a negative k counts from the end
At(ls, k) == IF k < 0 THEN ls[Len(ls) + k + 1] ELSE ls[k + 1]

\* the lines appended to new_lines for the first route
TEMPLATE ==
    << <<"// GET /api/orders - ", MARKER, " with optional date filtering", LF>>,
       <<SIGNATURE, " async (req, res) => {", LF>>,
       <<"  try {", LF>>,
       <<"    const { startDate, endDate } = req.query;", LF>>,
       <<"    const db = await getMongoDb();", LF>>,
       <<LF>>,
       <<"    // Prepare filter query", LF>>,
       <<"    const query: any = {};", LF>>,
       <<"    if (startDate || endDate) {", LF>>,
       <<"      query.createdAt = {};", LF>>,
       <<"      if (startDate) {", LF>>,
       <<"        const start = new Date(startDate as string);", LF>>,
       <<"        if (!isNaN(start.getTime())) query.createdAt.$gte = start;", LF>>,
       <<"      }", LF>>,
       <<"      if (endDate) {", LF>>,
       <<"        const end = new Date(endDate as string);", LF>>,
       <<"        if (!isNaN(end.getTime())) {", LF>>,
       <<"          const endOfDay = new Date(end);", LF>>,
       <<"          endOfDay.setHours(23, 59, 59, 999);", LF>>,
       <<"          query.createdAt.$lte = endOfDay;", LF>>,
       <<"        }", LF>>,
       <<"      }", LF>>,
       <<"    }", LF>>,
       <<LF>>,
       <<"    // Fetch orders", LF>>,
       <<"    const orders = await db.collection('orders')", LF>>,
       <<"      .find(query)", LF>>,
       <<"      .sort({ createdAt: -1 })", LF>>,
       <<"      ", TERM_FIRST, LF>> >>

-----------------------------------------------------------------------------
(* Text-mode file I/O: open(path, 'r') / open(path, 'w') with newline=None *)

\* reading in text mode: "\r\n" and a lone "\r" both arrive as "\n"
RECURSIVE ReadTranslate(_)
ReadTranslate(b) ==
    IF b = <<>> THEN <<>>
    ELSE IF Head(b) = CR
         THEN IF Len(b) >= 2 /\ b[2] = LF
              THEN <<LF>> \o ReadTranslate(SubSeq(b, 3, Len(b)))
              ELSE <<LF>> \o ReadTranslate(Tail(b))
         ELSE <<Head(b)>> \o ReadTranslate(Tail(b))

\* split after every "\n"; cur is the line being collected
RECURSIVE SplitLines(_, _)
SplitLines(t, cur) ==
    IF t = <<>> THEN (IF cur = <<>> THEN <<>> ELSE <<cur>>)
    ELSE IF Head(t) = LF
         THEN <<Append(cur, LF)>> \o SplitLines(Tail(t), <<>>)
         ELSE SplitLines(Tail(t), Append(cur, Head(t)))

\* f.readlines() on a file opened with open(path, 'r')
readlines(b) == SplitLines(ReadTranslate(b), <<>>)

\* the concatenation of a list of lines
RECURSIVE Concat(_)
Concat(ls) == IF ls = <<>> THEN <<>> ELSE Head(ls) \o Concat(Tail(ls))

\* writing in text mode: every "\n" leaves as os.linesep
RECURSIVE WriteTranslate(_, _)
WriteTranslate(t, sep) ==
    IF t = <<>> THEN <<>>
    ELSE (IF Head(t) = LF THEN sep ELSE <<Head(t)>>) \o WriteTranslate(Tail(t), sep)

\* what f.writelines(ls) puts in a file opened with open(path, 'w')
writelines(ls, sep) == WriteTranslate(Concat(ls), sep)

-----------------------------------------------------------------------------
(* Inputs *)

\* the texts of the lines of the input files
LineTexts == { <<"x">>, <<MARKER>>, <<SIGNATURE>>, <<TERM_FIRST>>, <<TERM_LATER>> }

\* the platforms' line separators
LineSeps == { <<LF>>, <<CR, LF>> }

\* the ways to end the n lines of a file: only the last line can lack its
\* terminator; the lines of a file longer than MaxMixedLines all end the
\* same way
LineEndings(n) ==
    { e \in [1..n -> LineSeps \cup { <<>> }] :
        /\ \A k \in 1..(n - 1) : e[k] # <<>>
        /\ n > MaxMixedLines => \A k \in 1..(n - 1) : e[k] = e[1]
        /\ n > MaxMixedLines => e[n] \in { e[1], <<>> } }

\* the file whose lines are the texts t, ended by e
FileOf(t, e) == Concat([k \in DOMAIN t |-> t[k] \o e[k]])

-----------------------------------------------------------------------------
(* The script *)

Init ==
    /\ \E n \in 0..MaxFileLines :
          \E t \in [1..n -> LineTexts] :
             \E e \in LineEndings(n) : disk = FileOf(t, e)
    /\ original = disk
    /\ linesep \in LineSeps
    /\ lines = <<>>
    /\ new_lines = <<>>
    /\ found_first_route = FALSE
    /\ i = 0
    /\ pc = "load"

\* with open(path, 'r') ...: lines = f.readlines(), then the initialisations
Load ==
    /\ pc = "load"
    /\ lines' = readlines(disk)
    /\ new_lines' = <<>>
    /\ found_first_route' = FALSE
    /\ i' = 0
    /\ pc' = "loop"
    /\ UNCHANGED <<disk, original, linesep>>

\* the test of the route: the signature in lines[i], the marker in lines[i-1]
AnchorTest(ls, k) ==
    Contains(At(ls, k), SIGNATURE) /\ Contains(At(ls, k - 1), MARKER)

\* while i < len(lines) and pat not in lines[i]: i += 1
RECURSIVE SkipUntil(_, _, _)
SkipUntil(ls, k, pat) ==
    IF k < Len(ls) /\ ~Contains(At(ls, k), pat)
    THEN SkipUntil(ls, k + 1, pat)
    ELSE k

\* the first route: append the template, skip to the line after ".toArray();"
ReplaceFirst ==
    /\ pc = "loop"
    /\ i < Len(lines)
    /\ AnchorTest(lines, i)
    /\ ~found_first_route
    /\ found_first_route' = TRUE
    /\ new_lines' = new_lines \o TEMPLATE
    /\ i' = SkipUntil(lines, i, TERM_FIRST) + 1
    /\ UNCHANGED <<disk, original, linesep, lines, pc>>

\* DropLater with the terminator of the first route
DropLaterFirstTerminator ==
    /\ pc = "loop"
    /\ i < Len(lines)
    /\ AnchorTest(lines, i)
    /\ found_first_route
    /\ i' = SkipUntil(lines, i, TERM_FIRST) + 1
    /\ UNCHANGED <<disk, original, linesep, lines, new_lines, found_first_route, pc>>

\* a later route: append nothing, skip to the line after "});"
DropLater ==
    /\ pc = "loop"
    /\ i < Len(lines)
    /\ AnchorTest(lines, i)
    /\ found_first_route
    /\ i' = SkipUntil(lines, i, TERM_LATER) + 1
    /\ UNCHANGED <<disk, original, linesep, lines, new_lines, found_first_route, pc>>

\* Copy without the increment of i
CopyNoAdvance ==
    /\ pc = "loop"
    /\ i < Len(lines)
    /\ ~AnchorTest(lines, i)
    /\ new_lines' = Append(new_lines, At(lines, i))
    /\ i' = i
    /\ UNCHANGED <<disk, original, linesep, lines, found_first_route, pc>>

\* any other line: new_lines.append(line); i += 1
Copy ==
    /\ pc = "loop"
    /\ i < Len(lines)
    /\ ~AnchorTest(lines, i)
    /\ new_lines' = Append(new_lines, At(lines, i))
    /\ i' = i + 1
    /\ UNCHANGED <<disk, original, linesep, lines, found_first_route, pc>>

\* the loop condition fails
ExitLoop ==
    /\ pc = "loop"
    /\ ~(i < Len(lines))
    /\ pc' = "open_w"
    /\ UNCHANGED <<disk, original, linesep, lines, new_lines, found_first_route, i>>

\* open(path, 'w') truncates the file
OpenWrite ==
    /\ pc = "open_w"
    /\ disk' = <<>>
    /\ pc' = "write"
    /\ UNCHANGED <<original, linesep, lines, new_lines, found_first_route, i>>

\* open(path, 'w') raises: nothing is opened, the script ends
OpenWriteFails ==
    /\ pc = "open_w"
    /\ pc' = "failed"
    /\ UNCHANGED <<disk, original, linesep, lines, new_lines, found_first_route, i>>

\* f.writelines(new_lines) and the close of the file
WriteLines ==
    /\ pc = "write"
    /\ disk' = writelines(new_lines, linesep)
    /\ pc' = "print"
    /\ UNCHANGED <<original, linesep, lines, new_lines, found_first_route, i>>

\* the write raises after k of the lines reached the file
WriteLinesFails ==
    /\ pc = "write"
    /\ \E k \in 0..(Len(new_lines) - 1) :
          disk' = writelines(SubSeq(new_lines, 1, k), linesep)
    /\ pc' = "failed"
    /\ UNCHANGED <<original, linesep, lines, new_lines, found_first_route, i>>

\* print("Orders route updated successfully.")
PrintSuccess ==
    /\ pc = "print"
    /\ pc' = "done"
    /\ UNCHANGED <<disk, original, linesep, lines, new_lines, found_first_route, i>>

Next ==
    \/ Load
    \/ ReplaceFirst
    \/ DropLater
    \/ Copy
    \/ ExitLoop
    \/ OpenWrite
    \/ OpenWriteFails
    \/ WriteLines
    \/ WriteLinesFails
    \/ PrintSuccess

Spec == Init /\ [][Next]_vars

-----------------------------------------------------------------------------
(* The scan alone, from the state the load leaves *)

ScanInit ==
    /\ \E n \in 0..MaxLen :
          \E t \in [1..n -> LineTexts] : disk = FileOf(t, [k \in 1..n |-> <<LF>>])
    /\ original = disk
    /\ linesep = <<LF>>
    /\ lines = readlines(disk)
    /\ new_lines = <<>>
    /\ found_first_route = FALSE
    /\ i = 0
    /\ pc = "loop"

ScanNext ==
    \/ ReplaceFirst
    \/ DropLater
    \/ Copy
    \/ ExitLoop

ScanSpec == ScanInit /\ [][ScanNext]_vars

\* the script is one thread that runs until it ends
FairScanSpec == ScanSpec /\ WF_vars(ScanNext)

-----------------------------------------------------------------------------
(* The notions the properties are stated in *)

\* the scan is over: new_lines is the output
ScanDone == pc \notin { "load", "loop" }

\* position k is an anchor: the signature line at k, the marker line right
\* before it
AnchorMatch(ls, k) ==
    /\ 0 < k
    /\ k < Len(ls)
    /\ Contains(ls[k + 1], SIGNATURE)
    /\ Contains(ls[k], MARKER)

AnchorPositions(ls) == { k \in 0..(Len(ls) - 1) : AnchorMatch(ls, k) }

\* the smallest j >= k whose line contains pat; Len(ls) when there is none
TerminatorIndex(ls, k, pat) ==
    LET S == { j \in k..(Len(ls) - 1) : Contains(ls[j + 1], pat) }
    IN  IF S = {} THEN Len(ls) ELSE CHOOSE j \in S : \A m \in S : j <= m

\* the terminator the script looks for in the block of a given ordinal
TerminatorOf(ordinal) == IF ordinal = 1 THEN TERM_FIRST ELSE TERM_LATER

\* the blocks in scan order from cursor k on, n blocks having been seen:
\* sig is the index of the signature line, end the index of the terminator
RECURSIVE BlocksFrom(_, _, _)
BlocksFrom(ls, k, n) ==
    IF k >= Len(ls) THEN <<>>
    ELSE IF AnchorMatch(ls, k)
         THEN LET j == TerminatorIndex(ls, k, TerminatorOf(n + 1))
              IN  << [sig |-> k, end |-> j] >> \o BlocksFrom(ls, j + 1, n + 1)
         ELSE BlocksFrom(ls, k + 1, n)

Blocks(ls) == BlocksFrom(ls, 0, 0)

\* every block has its terminator
AllResolved(ls) == \A n \in DOMAIN Blocks(ls) : Blocks(ls)[n].end < Len(ls)

\* index k lies in a block, the marker line counted in
InBlock(ls, k) ==
    \E n \in DOMAIN Blocks(ls) : Blocks(ls)[n].sig - 1 <= k /\ k <= Blocks(ls)[n].end

\* index k lies in the block of a match after the first, the marker line
\* counted in
InLaterBlock(ls, k) ==
    \E n \in DOMAIN Blocks(ls) :
        n >= 2 /\ Blocks(ls)[n].sig - 1 <= k /\ k <= Blocks(ls)[n].end

\* the lines of ls from index k on whose index is not in the set drop
RECURSIVE Kept(_, _, _)
Kept(ls, k, drop) ==
    IF k >= Len(ls) THEN <<>>
    ELSE (IF k \in drop THEN <<>> ELSE << ls[k + 1] >>) \o Kept(ls, k + 1, drop)

\* a is b with some elements left out
RECURSIVE IsSubsequence(_, _)
IsSubsequence(a, b) ==
    IF a = <<>> THEN TRUE
    ELSE IF b = <<>> THEN FALSE
    ELSE IF Head(a) = Head(b) THEN IsSubsequence(Tail(a), Tail(b))
    ELSE IsSubsequence(a, Tail(b))

\* how many times v occurs in s
Count(s, v) == Cardinality({ k \in DOMAIN s : s[k] = v })

-----------------------------------------------------------------------------
(* The properties *)

\* C1: with N >= 2 anchor matches, each with its terminator, the output is
\* the input with the first block (signature line to terminator) replaced by
\* the template and the blocks of matches 2..N (marker line to terminator)
\* left out; every other line is kept.
C1_MultiMatchDropAfterFirst ==
    (ScanDone /\ Len(Blocks(lines)) >= 2 /\ AllResolved(lines)) =>
        LET b1 == Blocks(lines)[1]
            later == { k \in 0..(Len(lines) - 1) : InLaterBlock(lines, k) }
        IN  new_lines =
                Kept(SubSeq(lines, 1, b1.sig), 0, later)
                    \o TEMPLATE
                    \o Kept(lines, b1.end + 1, later)

\* C2: with exactly one anchor match, whose terminator exists, the output is
\* the lines before the marker line, the template, and the lines after the
\* terminator.
C2_SingleMatchReplacement ==
    \A k \in AnchorPositions(lines) :
        LET j == TerminatorIndex(lines, k, TERM_FIRST)
        IN  (ScanDone /\ AnchorPositions(lines) = { k } /\ j < Len(lines)) =>
                new_lines = SubSeq(lines, 1, k - 1)
                                \o TEMPLATE
                                \o SubSeq(lines, j + 2, Len(lines))

\* C3: when no position is an anchor match, the output is the input.
C3_NoMatchIdentity ==
    (ScanDone /\ AnchorPositions(lines) = {}) => new_lines = lines

\* C4: when an anchor is matched and no line from the signature line on
\* satisfies the terminator, the script does not go on to the write and the
\* file stays as it was.
C4_UnresolvedBlockFails ==
    (pc # "load" /\ ~AllResolved(lines)) =>
        /\ pc \notin { "open_w", "write", "print", "done" }
        /\ disk = original

\* C5: the file is always either the original content or the complete edited
\* content, and after a failure it is the original content.
C5_NoPartialWrite ==
    /\ \/ disk = original
       \/ ScanDone /\ disk = writelines(new_lines, linesep)
    /\ pc = "failed" => disk = original

\* C6: a file with no anchor match, whose lines the scan hands on as loaded,
\* is the same, terminators included, after the script has loaded it and
\* written it back.
C6_RoundTripIdentity ==
    (pc = "done" /\ AnchorPositions(lines) = {} /\ new_lines = lines) =>
        disk = original

\* C7: every line outside all matched blocks is in the output, in the order
\* of the input, and no line is in the output more often than in the input
\* and the template together.
C7_OutsideLinesPreserved ==
    ScanDone =>
        LET inside == { k \in 0..(Len(lines) - 1) : InBlock(lines, k) }
        IN  /\ IsSubsequence(Kept(lines, 0, inside), new_lines)
            /\ \A k \in DOMAIN lines :
                  Count(new_lines, lines[k])
                      <= Count(lines, lines[k]) + Count(TEMPLATE, lines[k])

\* the scan is at the signature line of a route it recognises
AtBlock == pc = "loop" /\ i < Len(lines) /\ AnchorTest(lines, i)

C9_NoAnchorAtCursorZero ==
    (pc # "load" /\ Len(lines) > 0 /\ i > 0) =>
        /\ Len(new_lines) >= 1
        /\ new_lines[1] = lines[1]

\* C10: every iteration of the loop strictly increases the cursor, and the
\* loop is left in the end.
C10_ScanTerminates ==
    /\ [][pc = "loop" /\ pc' = "loop" => i' > i]_vars
    /\ <>(pc = "open_w" /\ i >= Len(lines))

\* a finished scan that copied lines and consumed more than three lines in
\* blocks, the last of them ending at the last line
C10_Witness ==
    /\ pc = "open_w"
    /\ found_first_route
    /\ i = Len(lines)
    /\ Len(new_lines) > Len(TEMPLATE)
    /\ Len(new_lines) < Len(TEMPLATE) + Len(lines) - 3

=============================================================================
